---- MODULE Spec2Model ----
(***************************************************************************)
(* Ludo World API: the room / turn state machine of src/main.py.          *)
(*                                                                         *)
(* The "room" collection is a sequence of documents in insertion order;   *)
(* a document's _id (the ObjectId the store assigns) is its ordinal.      *)
(* Every request handler is a process whose steps are the handler's       *)
(* calls on the store (find_one, insert_one, update_one): each call is    *)
(* atomic, and calls of different requests interleave freely.             *)
(* Optional values are sequences of length at most one: None is << >>.    *)
(***************************************************************************)
EXTENDS Integers, Sequences, FiniteSets, TLC

VARIABLES rooms, pc, req, loc, resp, messages, chat_resp

vars == <<rooms, pc, req, loc, resp, messages, chat_resp>>
\* the "room" collection and the room handlers; the "message" collection and
\* the answer of the chat handler that ran last
roomvars == <<rooms, pc, req, loc, resp>>
chatvars == <<messages, chat_resp>>

\* ----- bounds of the model -----
NumProcs == 2
MaxRooms == 2
\* chat messages posted in all, and posted to rooms other than the busy one
MaxMessages == 52
MaxOtherRoom == 1

Procs == 1..NumProcs
\* room codes requests carry: two when requests are served one at a time,
\* one when every interleaving of their store calls is explored
Codes == {"A", "B"}
RaceCodes == {"A"}
Names == {"ann"}

\* ----- Optional[...] -----
None == << >>
Some(x) == <<x>>

\* ----- program constants -----
COLORS == <<"red", "green", "yellow", "blue">>
DefaultMaxPlayers == 4
DiceLow == 1
DiceHigh == 6
MinPlayersToStart == 2
BaseTokens == <<-1, -1, -1, -1>>

\* str(room["_id"]) + f"-p{index}"
PlayerId(oid, index) == ToString(oid) \o "-p" \o ToString(index)

\* payload.player_id values a client may send
PlayerIds == {PlayerId(r, i) : r \in 1..MaxRooms, i \in 0..(DefaultMaxPlayers - 1)}

RECURSIVE FirstFree(_, _)
FirstFree(used, k) ==
    IF k > Len(COLORS) THEN 0
    ELSE IF COLORS[k] \notin used THEN k
    ELSE FirstFree(used, k + 1)

NextColor_Inverted(players) ==
    LET used == {players[i].color : i \in 1..Len(players)}
        taken == {k \in 1..Len(COLORS) : COLORS[k] \in used}
    IN  IF taken # {} THEN COLORS[CHOOSE k \in taken : \A j \in taken : k <= j]
        ELSE COLORS[(Len(players) % 4) + 1]
\* _next_color
NextColor(players) ==
    LET used == {players[i].color : i \in 1..Len(players)}
        k == FirstFree(used, 1)
    IN  IF k # 0 THEN COLORS[k] ELSE COLORS[(Len(players) % 4) + 1]

\* Player(name=..., color=...) dumped into the host's embedded dict
HostPlayer(name) ==
    [_id |-> None, name |-> name, color |-> NextColor(<< >>),
     tokens |-> BaseTokens, is_bot |-> FALSE]

\* Room(code=..., created_by="host", players=[host], status="waiting").model_dump()
NewRoom(oid, code, name) ==
    [_id |-> oid, code |-> code, created_by |-> "host", status |-> "waiting",
     max_players |-> DefaultMaxPlayers, players |-> <<HostPlayer(name)>>,
     current_turn |-> None, last_roll |-> None]

JoinedPlayer_IndexFromOne(room, name) ==
    [_id |-> Some(PlayerId(room._id, Len(room.players) + 1)), name |-> name,
     color |-> NextColor(room.players), tokens |-> BaseTokens, is_bot |-> FALSE]
\* the dict join_room appends
JoinedPlayer(room, name) ==
    [_id |-> Some(PlayerId(room._id, Len(room.players))), name |-> name,
     color |-> NextColor(room.players), tokens |-> BaseTokens, is_bot |-> FALSE]

\* rooms.find_one({"code": code}): the first match in natural order, or None
RECURSIVE FindFrom(_, _, _)
FindFrom(coll, code, k) ==
    IF k > Len(coll) THEN None
    ELSE IF coll[k].code = code THEN Some(coll[k])
    ELSE FindFrom(coll, code, k + 1)

FindByCode(code) == FindFrom(rooms, code, 1)

\* rooms.find_one({"_id": oid})
FindById(oid) == rooms[oid]

\* ids.index(player_id): 0 when absent (Python raises ValueError)
RECURSIVE IndexFrom(_, _, _)
IndexFrom(ids, pid, k) ==
    IF k > Len(ids) THEN 0
    ELSE IF ids[k] = Some(pid) THEN k
    ELSE IndexFrom(ids, pid, k + 1)

\* ----- requests, handler locals, HTTP responses -----
NoReq == [op |-> "", code |-> "", name |-> "", player_id |-> ""]
NoLoc == [room |-> None, roll |-> None]
\* A response names the route and room code it answers; an HTTPException
\* carries a status code and a detail, a success the returned body.
NoResp == [op |-> "", code |-> "", status |-> 0, detail |-> "",
           roll |-> None, room |-> None]

\* raise HTTPException(status_code=..., detail=...)
Err(r, code, detail) ==
    [op |-> r.op, code |-> r.code, status |-> code, detail |-> detail,
     roll |-> None, room |-> None]
\* return updated
Ok(r, room) ==
    [op |-> r.op, code |-> r.code, status |-> 200, detail |-> "",
     roll |-> None, room |-> Some(room)]
\* return {"roll": roll, "room": updated}
OkRoll(r, roll, room) ==
    [op |-> r.op, code |-> r.code, status |-> 200, detail |-> "",
     roll |-> Some(roll), room |-> Some(room)]

\* ----- chat: the "message" collection, in insertion order -----
ChatLimit == 50
BusyCode == "A"
ChatText == "hi"
NoChat == [op |-> "", room_code |-> "", _id |-> None, data |-> << >>]

\* the document post_chat inserts; its _id is its ordinal in the collection
NewMessage(oid, msg) ==
    [_id |-> oid, room_code |-> msg.room_code, player_name |-> msg.player_name,
     text |-> msg.text]

\* msgs.find({"room_code": room_code})
Matching(room_code) == SelectSeq(messages, LAMBDA m : m.room_code = room_code)

\* .sort("_id", -1): the greatest _id first (insertion sort)
RECURSIVE SortByIdDescending(_)
SortByIdDescending(docs) ==
    IF docs = << >> THEN << >>
    ELSE LET rest == SortByIdDescending(Tail(docs))
             k == Cardinality({i \in 1..Len(rest) : rest[i]._id > Head(docs)._id})
         IN  SubSeq(rest, 1, k) \o <<Head(docs)>> \o SubSeq(rest, k + 1, Len(rest))

RECURSIVE SortByIdAscending(_)
SortByIdAscending(docs) ==
    IF docs = << >> THEN << >>
    ELSE LET rest == SortByIdAscending(Tail(docs))
             k == Cardinality({i \in 1..Len(rest) : rest[i]._id < Head(docs)._id})
         IN  SubSeq(rest, 1, k) \o <<Head(docs)>> \o SubSeq(rest, k + 1, Len(rest))

\* .limit(n)
Limit(docs, n) == SubSeq(docs, 1, IF Len(docs) < n THEN Len(docs) ELSE n)

\* reversed(data)
Reversed(docs) == [i \in 1..Len(docs) |-> docs[Len(docs) + 1 - i]]

\* d["_id"] = str(d["_id"])
WithStrId(docs) == [i \in 1..Len(docs) |-> [docs[i] EXCEPT !._id = ToString(@)]]

ChatPage_FirstFifty(room_code) ==
    WithStrId(Limit(SortByIdAscending(Matching(room_code)), ChatLimit))
\* what get_chat returns
ChatPage(room_code) ==
    Reversed(WithStrId(Limit(SortByIdDescending(Matching(room_code)), ChatLimit)))

\* what a handler reads again from the document it fetched
Fetched(room) == [_id |-> room._id, players |-> room.players]

Init ==
    /\ rooms = << >>
    /\ pc = [p \in Procs |-> "idle"]
    /\ req = [p \in Procs |-> NoReq]
    /\ loc = [p \in Procs |-> NoLoc]
    /\ resp = NoResp
    /\ messages = << >>
    /\ chat_resp = NoChat

\* the request ends: its response goes out and the worker is free again
Finish(p, r) ==
    /\ pc' = [pc EXCEPT ![p] = "idle"]
    /\ req' = [req EXCEPT ![p] = NoReq]
    /\ loc' = [loc EXCEPT ![p] = NoLoc]
    /\ resp' = r
    /\ UNCHANGED <<rooms, chatvars>>

\* the request passes its checks and goes on to its first write
Proceed(p, r, room, next) ==
    /\ pc' = [pc EXCEPT ![p] = next]
    /\ req' = [req EXCEPT ![p] = r]
    /\ loc' = [loc EXCEPT ![p] = [room |-> Some(Fetched(room)), roll |-> None]]
    /\ resp' = NoResp
    /\ UNCHANGED <<rooms, chatvars>>

\* a write to the store by a request in flight
Write(p, next) ==
    /\ pc' = [pc EXCEPT ![p] = next]
    /\ resp' = NoResp
    /\ UNCHANGED <<req, chatvars>>

\* rooms created or about to be inserted
RoomsClaimed == Len(rooms) + Cardinality({q \in Procs : pc[q] = "create_insert"})

\* ----- POST /rooms/create -----
CreateFind_InsertThenCheck(p, codes) ==
    /\ pc[p] = "idle"
    /\ Len(rooms) < MaxRooms
    /\ UNCHANGED chatvars
    /\ \E code \in codes, name \in Names :
         LET r == [op |-> "create", code |-> code, name |-> name, player_id |-> ""]
         IN  /\ rooms' = Append(rooms, NewRoom(Len(rooms) + 1, code, name))
             /\ IF FindByCode(code) # None
                THEN /\ resp' = Err(r, 400, "Room code already exists")
                     /\ UNCHANGED <<pc, req, loc>>
                ELSE /\ pc' = [pc EXCEPT ![p] = "create_patch"]
                     /\ req' = [req EXCEPT ![p] = r]
                     /\ loc' = [loc EXCEPT ![p] =
                            [room |-> Some(Fetched(rooms'[Len(rooms')])), roll |-> None]]
                     /\ resp' = NoResp
CreateFind(p, codes) ==
    /\ pc[p] = "idle"
    /\ \E code \in codes, name \in Names :
         LET r == [op |-> "create", code |-> code, name |-> name, player_id |-> ""]
         IN  IF FindByCode(code) # None
             THEN Finish(p, Err(r, 400, "Room code already exists"))
             ELSE /\ RoomsClaimed < MaxRooms
                  /\ pc' = [pc EXCEPT ![p] = "create_insert"]
                  /\ req' = [req EXCEPT ![p] = r]
                  /\ resp' = NoResp
                  /\ UNCHANGED <<rooms, loc, chatvars>>

CreateInsert(p) ==
    /\ pc[p] = "create_insert"
    /\ LET oid == Len(rooms) + 1
           room == NewRoom(oid, req[p].code, req[p].name)
       IN  /\ rooms' = Append(rooms, room)
           /\ loc' = [loc EXCEPT ![p] = [room |-> Some(Fetched(room)), roll |-> None]]
    /\ Write(p, "create_patch")

\* {"$set": {"players.0._id": str(inserted_id) + "-p0"}}
CreatePatch(p) ==
    /\ pc[p] = "create_patch"
    /\ LET oid == loc[p].room[1]._id
       IN  rooms' = [rooms EXCEPT ![oid].players[1]._id = Some(PlayerId(oid, 0))]
    /\ Write(p, "create_read")
    /\ UNCHANGED loc

CreateRead(p) ==
    /\ pc[p] = "create_read"
    /\ Finish(p, Ok(req[p], FindById(loc[p].room[1]._id)))

\* ----- POST /rooms/join -----
RoomIsFull_OffByOne(room) == Len(room.players) > room.max_players
RoomIsFull(room) == Len(room.players) >= room.max_players

\* update_one(..., {"$set": {"players": players}}) applied to the stored document
JoinUpdate_WholeDocument(doc, room) ==
    [doc EXCEPT !.players = room.players, !.status = "waiting",
                !.current_turn = None, !.last_roll = None]
JoinUpdate(doc, room) == [doc EXCEPT !.players = room.players]

JoinFind(p, codes) ==
    /\ pc[p] = "idle"
    /\ \E code \in codes, name \in Names :
         LET r == [op |-> "join", code |-> code, name |-> name, player_id |-> ""]
             found == FindByCode(code)
         IN  IF found = None THEN Finish(p, Err(r, 404, "Room not found"))
             ELSE IF found[1].status # "waiting"
                  THEN Finish(p, Err(r, 400, "Game already started"))
             ELSE IF RoomIsFull(found[1])
                  THEN Finish(p, Err(r, 400, "Room is full"))
             ELSE \* players.append(...) extends the list that was read, in place
                  Proceed(p, r,
                          [found[1] EXCEPT !.players =
                               Append(@, JoinedPlayer(found[1], name))],
                          "join_write")

\* {"$set": {"players": players}}
JoinWrite(p) ==
    /\ pc[p] = "join_write"
    /\ LET room == loc[p].room[1]
       IN  rooms' = [rooms EXCEPT ![room._id] = JoinUpdate(@, room)]
    /\ Write(p, "join_read")
    /\ UNCHANGED loc

JoinRead(p) ==
    /\ pc[p] = "join_read"
    /\ Finish(p, Ok(req[p], FindById(loc[p].room[1]._id)))

\* ----- POST /rooms/{code}/start -----
\* room["players"][0]["_id"]
FirstPlayerId_Last(room) == room.players[Len(room.players)]._id
FirstPlayerId(room) == room.players[1]._id

StartFind(p, codes) ==
    /\ pc[p] = "idle"
    /\ \E code \in codes :
         LET r == [op |-> "start", code |-> code, name |-> "", player_id |-> ""]
             found == FindByCode(code)
         IN  IF found = None THEN Finish(p, Err(r, 404, "Room not found"))
             ELSE IF found[1].status # "waiting"
                  THEN Finish(p, Err(r, 400, "Already started"))
             ELSE IF Len(found[1].players) < MinPlayersToStart
                  THEN Finish(p, Err(r, 400, "Need at least 2 players"))
             ELSE Proceed(p, r, found[1], "start_write")

\* {"$set": {"status": "playing", "current_turn": first_player_id}}
StartWrite(p) ==
    /\ pc[p] = "start_write"
    /\ LET room == loc[p].room[1]
           first_player_id == FirstPlayerId(room)
       IN  rooms' = [rooms EXCEPT ![room._id].status = "playing",
                                  ![room._id].current_turn = first_player_id]
    /\ Write(p, "start_read")
    /\ UNCHANGED loc

StartRead(p) ==
    /\ pc[p] = "start_read"
    /\ Finish(p, Ok(req[p], FindById(loc[p].room[1]._id)))

\* ----- POST /rooms/{code}/roll -----
NotYourTurn_AnyPlayer(room, player_id) ==
    \A i \in 1..Len(room.players) : room.players[i]._id # Some(player_id)
NotYourTurn(room, player_id) == room.current_turn # Some(player_id)

RollFind(p, codes) ==
    /\ pc[p] = "idle"
    /\ \E code \in codes, player_id \in PlayerIds :
         LET r == [op |-> "roll", code |-> code, name |-> "", player_id |-> player_id]
             found == FindByCode(code)
         IN  IF found = None THEN Finish(p, Err(r, 404, "Room not found"))
             ELSE IF found[1].status # "playing"
                  THEN Finish(p, Err(r, 400, "Game not started"))
             ELSE IF NotYourTurn(found[1], player_id)
                  THEN Finish(p, Err(r, 403, "Not your turn"))
             ELSE Proceed(p, r, found[1], "roll_store")

\* ids[(idx + 1) % len(ids)], for idx counted from 1
NextTurn_SkipsOne(ids, idx) == ids[((idx + 1) % Len(ids)) + 1]
NextTurn(ids, idx) == ids[(idx % Len(ids)) + 1]

\* roll = randint(1, 6); {"$set": {"last_roll": roll}}
RollStore(p) ==
    /\ pc[p] = "roll_store"
    /\ \E roll \in DiceLow..DiceHigh :
         /\ rooms' = [rooms EXCEPT ![loc[p].room[1]._id].last_roll = Some(roll)]
         /\ loc' = [loc EXCEPT ![p].roll = Some(roll)]
    /\ Write(p, "roll_advance")

\* ids.index(...) raises ValueError (HTTP 500) when the id is not in the list
\* that was read; otherwise {"$set": {"current_turn": next_id}}
RollAdvance(p) ==
    /\ pc[p] = "roll_advance"
    /\ LET room == loc[p].room[1]
           ids == [i \in 1..Len(room.players) |-> room.players[i]._id]
           idx == IndexFrom(ids, req[p].player_id, 1)
       IN  IF idx = 0
           THEN Finish(p, Err(req[p], 500, "Internal Server Error"))
           ELSE /\ rooms' = [rooms EXCEPT ![room._id].current_turn =
                                  NextTurn(ids, idx)]
                /\ Write(p, "roll_read")
                /\ UNCHANGED loc

RollRead(p) ==
    /\ pc[p] = "roll_read"
    /\ Finish(p, OkRoll(req[p], loc[p].roll[1], FindById(loc[p].room[1]._id)))

\* ----- POST /chat -----
PostChat ==
    /\ Len(messages) < MaxMessages
    /\ \E room_code \in Codes :
         /\ \/ room_code = BusyCode
            \/ Len(messages) - Len(Matching(BusyCode)) < MaxOtherRoom
         /\ LET msg == [room_code |-> room_code, player_name |-> None,
                        text |-> ChatText]
                mid == Len(messages) + 1
            IN  /\ messages' = Append(messages, NewMessage(mid, msg))
                /\ chat_resp' = [op |-> "post_chat", room_code |-> room_code,
                                 _id |-> Some(ToString(mid)), data |-> << >>]
    /\ UNCHANGED roomvars

\* ----- GET /chat/{room_code} -----
GetChat ==
    /\ \E room_code \in Codes :
         chat_resp' = [op |-> "get_chat", room_code |-> room_code,
                       _id |-> None, data |-> ChatPage(room_code)]
    /\ UNCHANGED <<messages, roomvars>>

Step(p, codes) ==
    \/ CreateFind(p, codes) \/ CreateInsert(p) \/ CreatePatch(p) \/ CreateRead(p)
    \/ JoinFind(p, codes) \/ JoinWrite(p) \/ JoinRead(p)
    \/ StartFind(p, codes) \/ StartWrite(p) \/ StartRead(p)
    \/ RollFind(p, codes) \/ RollStore(p) \/ RollAdvance(p) \/ RollRead(p)

\* requests arrive and are served concurrently
Next == \E p \in Procs : Step(p, RaceCodes)

Spec == Init /\ [][Next]_vars

\* requests are served one at a time
Quiet(p) == \A q \in Procs \ {p} : pc[q] = "idle"

SeqNext == \E p \in Procs : Quiet(p) /\ Step(p, Codes)

SeqSpec == Init /\ [][SeqNext]_vars

\* the chat handlers alone; each is a single call on the store
ChatNext == PostChat \/ GetChat

ChatSpec == Init /\ [][ChatNext]_vars

\* ----- vocabulary of the properties -----
RoomIds == 1..Len(rooms)
Idle == \A p \in Procs : pc[p] = "idle"
StoredIds(r) == {rooms[r].players[i]._id : i \in 1..Len(rooms[r].players)}
\* the player a join request in flight has appended to the list it read
Mine(p) == loc[p].room[1].players[Len(loc[p].room[1].players)]
\* this step answers a request of the given route at its first find_one
Refused(op) == resp' # NoResp /\ resp'.op = op /\ pc' = pc
\* this step is the given worker's request passing its checks
Admitted(p, next) == pc[p] = "idle" /\ pc'[p] = next

\* C1: no two stored rooms have the same code, whatever the interleaving of
\* CreateRoom requests.
C1_CodesUnique ==
    \A i, j \in RoomIds : i # j => rooms[i].code # rooms[j].code

\* C2: two JoinRoom requests that have both written to the same room assigned
\* distinct ids and distinct colors, and both of their players are stored.
C2_ConcurrentJoinsBothKept ==
    \A p, q \in Procs :
        (/\ p # q
         /\ pc[p] = "join_read" /\ pc[q] = "join_read"
         /\ loc[p].room[1]._id = loc[q].room[1]._id)
        => /\ Mine(p)._id # Mine(q)._id
           /\ Mine(p).color # Mine(q).color
           /\ {Mine(p)._id, Mine(q)._id} \subseteq StoredIds(loc[p].room[1]._id)

\* C3: the stored players list of a room is never longer than max_players,
\* which is 4.
C3_PlayersWithinMax ==
    \A r \in RoomIds :
        /\ rooms[r].max_players = 4
        /\ Len(rooms[r].players) <= rooms[r].max_players

\* a room is full while a join that read it earlier has yet to write
C3_FullWithJoinPending ==
    \E r \in RoomIds, p \in Procs :
        /\ Len(rooms[r].players) = rooms[r].max_players
        /\ pc[p] = "join_write"
        /\ loc[p].room[1]._id = r

\* C4: the colors of a room's stored players are pairwise distinct and each is
\* one of red, green, yellow, blue.
C4_ColorsDistinctInPalette ==
    \A r \in RoomIds :
        LET ps == rooms[r].players
        IN  /\ \A i \in 1..Len(ps) : ps[i].color \in {"red", "green", "yellow", "blue"}
            /\ \A i, j \in 1..Len(ps) : i # j => ps[i].color # ps[j].color

\* two joins that read the same three players have both written a fourth
C4_FourColorsAfterOverwrite ==
    \E p, q \in Procs :
        /\ p # q
        /\ pc[p] = "join_read" /\ pc[q] = "join_read"
        /\ loc[p].room[1]._id = loc[q].room[1]._id
        /\ Mine(p)._id = Mine(q)._id
        /\ Len(rooms[loc[p].room[1]._id].players) = 4

\* C5: a room is inserted as waiting, its status only ever changes from
\* waiting to playing, and no room is ever finished.
C5_StatusForwardOnly ==
    [][\A r \in 1..Len(rooms') :
          /\ rooms'[r].status \in {"waiting", "playing"}
          /\ IF r > Len(rooms) THEN rooms'[r].status = "waiting"
             ELSE \/ rooms'[r].status = rooms[r].status
                  \/ /\ rooms[r].status = "waiting"
                     /\ rooms'[r].status = "playing"
                     /\ \E p \in Procs : pc[p] = "start_write" /\ pc'[p] = "start_read"
      ]_vars

\* a playing room has just been written by a join that read it while waiting
C5_JoinWriteAfterStart ==
    \E r \in RoomIds, p \in Procs :
        /\ rooms[r].status = "playing"
        /\ pc[p] = "join_read"
        /\ loc[p].room[1]._id = r

\* C6: whenever a room is playing, current_turn is set and is the id of one of
\* the room's stored players.
C6_TurnNamesAPlayer ==
    \A r \in RoomIds :
        rooms[r].status = "playing"
        => /\ rooms[r].current_turn # None
           /\ rooms[r].current_turn \in StoredIds(r)

\* the player join order gives position i (the creator at 0) of room r
ExpectedPlayer(r, i, name) ==
    [_id |-> Some(PlayerId(r, i)), name |-> name, color |-> COLORS[i + 1],
     tokens |-> <<-1, -1, -1, -1>>, is_bot |-> FALSE]

\* C7: with requests served one after another, every room at rest holds its
\* players in join order, the one at index i with id <room-id>-p<i>, color
\* palette[i], tokens all -1 and is_bot false, and every join that writes adds
\* exactly one player at the end of the list.
C7_SequentialJoins ==
    /\ [](Idle =>
            \A r \in RoomIds :
                \A i \in 1..Len(rooms[r].players) :
                    rooms[r].players[i] =
                        ExpectedPlayer(r, i - 1, rooms[r].players[i].name))
    /\ [][\A p \in Procs :
            (pc[p] = "join_write" /\ pc'[p] = "join_read")
            => LET r == loc[p].room[1]._id
                   n == Len(rooms[r].players)
               IN  /\ Len(rooms'[r].players) = n + 1
                   /\ SubSeq(rooms'[r].players, 1, n) = rooms[r].players
                   /\ rooms'[r].players[n + 1] =
                          ExpectedPlayer(r, n, req[p].name)
      ]_vars

\* the creator and three joiners are in a room, and a second room exists
C7_FourJoinedInOrder ==
    /\ Idle
    /\ Len(rooms) = 2
    /\ \E r \in RoomIds :
          /\ Len(rooms[r].players) = 4
          /\ rooms[r].players[4]._id = Some(PlayerId(r, 3))
          /\ resp.op = "join" /\ resp.status = 200

\* C8: a JoinRoom on a waiting room that has 4 players is answered 400 "Room is
\* full", never goes on to write, and leaves the stored rooms as they were.
C8_FullRoomRefusesJoin ==
    [][/\ \A p \in Procs :
            Admitted(p, "join_write")
            => Len(FindByCode(req'[p].code)[1].players) < 4
       /\ (/\ Refused("join")
           /\ FindByCode(resp'.code) # None
           /\ FindByCode(resp'.code)[1].status = "waiting"
           /\ Len(FindByCode(resp'.code)[1].players) = 4)
          => /\ resp'.status = 400
             /\ resp'.detail = "Room is full"
             /\ rooms' = rooms
      ]_vars

\* a join has just been refused by a full room
C8_JoinRefusedAsFull ==
    /\ resp.op = "join" /\ resp.status = 400 /\ resp.detail = "Room is full"
    /\ Len(FindByCode(resp.code)[1].players) = 4

\* C9: StartGame on a waiting room of
\* one player is answered "Need at least 2 players" and changes nothing, so the
\* room stays waiting with current_turn unset; on a waiting room of two or more
\* players it is not refused, and its write makes the room playing with
\* current_turn the id of the player at index 0.
C9_StartGame ==
    [][/\ \A p \in Procs :
            Admitted(p, "start_write")
            => Len(FindByCode(req'[p].code)[1].players) >= 2
       /\ (/\ Refused("start")
           /\ FindByCode(resp'.code) # None
           /\ FindByCode(resp'.code)[1].status = "waiting")
          => /\ Len(FindByCode(resp'.code)[1].players) = 1
             /\ resp'.status = 400
             /\ resp'.detail = "Need at least 2 players"
             /\ rooms' = rooms
             /\ FindByCode(resp'.code)[1].current_turn = None
       /\ \A p \in Procs :
            (pc[p] = "start_write" /\ pc'[p] = "start_read")
            => LET r == loc[p].room[1]._id
               IN  /\ rooms[r].status = "waiting"
                   /\ rooms'[r].status = "playing"
                   /\ rooms'[r].current_turn = rooms[r].players[1]._id
                   /\ rooms'[r].current_turn = Some(PlayerId(r, 0))
      ]_vars

\* a game of three or more has started and its first joiner holds the turn
C9_StartedWithFirstJoiner ==
    \E r \in RoomIds :
        /\ resp.op = "start" /\ resp.status = 200
        /\ resp.room[1]._id = r
        /\ Len(rooms[r].players) >= 3
        /\ rooms[r].status = "playing"
        /\ rooms[r].current_turn = Some(PlayerId(r, 0))

\* C10: a RollDice on a playing room whose player_id is not current_turn is
\* answered 403 "Not your turn", never goes on to write, and leaves the stored
\* rooms, so last_roll and current_turn, as they were.
C10_WrongTurnRefused ==
    [][/\ \A p \in Procs :
            Admitted(p, "roll_store")
            => FindByCode(req'[p].code)[1].current_turn = Some(req'[p].player_id)
       /\ (/\ Refused("roll")
           /\ FindByCode(resp'.code) # None
           /\ FindByCode(resp'.code)[1].status = "playing")
          => /\ resp'.status = 403
             /\ resp'.detail = "Not your turn"
             /\ rooms' = rooms
      ]_vars

\* a roll has just been refused in a room where a roll was already made
C10_RollRefusedAfterARoll ==
    /\ resp.op = "roll" /\ resp.status = 403 /\ resp.detail = "Not your turn"
    /\ FindByCode(resp.code)[1].last_roll # None
    /\ FindByCode(resp.code)[1].current_turn # None

\* the position of an id in a room's stored players, 0 when it is not there
StoredIndex(r, id) ==
    LET hits == {i \in 1..Len(rooms[r].players) : rooms[r].players[i]._id = id}
    IN  IF hits = {} THEN 0 ELSE CHOOSE i \in hits : \A j \in hits : i <= j

\* C11: with requests served one after another, a roll that succeeds returns a
\* value in 1..6, the players of a playing room have pairwise distinct ids of
\* which current_turn is one, and every roll passes the turn from the player at
\* index i to the player at index (i + 1) mod n of the unchanged players list;
\* so n rolls give the turn to each player once, in join order, and bring it
\* back to the first.
C11_TurnRotates ==
    /\ [](\A r \in RoomIds :
            rooms[r].status = "playing"
            => /\ StoredIndex(r, rooms[r].current_turn) # 0
               /\ \A i, j \in 1..Len(rooms[r].players) :
                     i # j => rooms[r].players[i]._id # rooms[r].players[j]._id)
    /\ []((resp.op = "roll" /\ resp.status = 200) => resp.roll[1] \in 1..6)
    /\ [][\A r \in RoomIds :
            (rooms[r].status = "playing" /\ rooms'[r] # rooms[r])
            => LET n == Len(rooms[r].players)
                   i == StoredIndex(r, rooms[r].current_turn)
               IN  /\ rooms'[r].players = rooms[r].players
                   /\ \/ rooms'[r].current_turn = rooms[r].current_turn
                      \/ /\ \E p \in Procs : pc[p] = "roll_advance" /\ pc'[p] = "roll_read"
                         /\ rooms'[r].current_turn = rooms[r].players[(i % n) + 1]._id
      ]_vars

\* a roll by the last of three or more players has given the turn back to the
\* first joiner
C11_TurnBackAtFirst ==
    /\ resp.op = "roll" /\ resp.status = 200
    /\ Len(resp.room[1].players) >= 3
    /\ resp.room[1].current_turn = resp.room[1].players[1]._id
    /\ resp.roll[1] \in 1..6

\* C12: a player id that is set in a stored room is the same at that position
\* of the room's list in every later state in which the position exists; the
\* creator's id, once patched to <room-id>-p0, is never unset again.
C12_IdsStable ==
    [][\A r \in RoomIds :
          \A i \in 1..Len(rooms[r].players) :
              (rooms[r].players[i]._id # None /\ i <= Len(rooms'[r].players))
              => rooms'[r].players[i]._id = rooms[r].players[i]._id
      ]_vars

\* the details of the errors the handlers raise
NamedErrors ==
    {"Room code already exists", "Room not found", "Game already started",
     "Room is full", "Already started", "Need at least 2 players",
     "Game not started", "Not your turn"}

\* C13: a request answered with one of the named errors (400, 403 or 404) is
\* answered at its first find_one: the step that answers it leaves every stored
\* room as it was, and the request has made no store call before it.
C13_ErrorsWriteNothing ==
    [][(resp' # NoResp /\ resp'.status \in {400, 403, 404})
       => /\ resp'.detail \in NamedErrors
          /\ rooms' = rooms
          /\ pc' = pc
          /\ loc' = loc
      ]_vars

\* a join has been refused because the game started, while another join that
\* read the room earlier is still to write
C13_RefusedWhileOtherWrites ==
    /\ resp.status = 400 /\ resp.detail = "Game already started"
    /\ \E p \in Procs : pc[p] = "join_write"

\* a roll has ended in an unhandled ValueError after its last_roll write
RollRaisedAfterWrite == resp.op = "roll" /\ resp.status = 500

\* C14: get_chat returns min(n, 50) of the n messages stored for the room code:
\* the last ones inserted, in insertion order, ids as strings, and none of them
\* a message of another room code.
C14_ChatPageIsLatestFifty ==
    chat_resp.op = "get_chat"
    => LET all == Matching(chat_resp.room_code)
           n == Len(all)
           data == chat_resp.data
           k == IF n < 50 THEN n ELSE 50
       IN  /\ Len(data) = k
           /\ \A i \in 1..k :
                 /\ data[i].room_code = chat_resp.room_code
                 /\ data[i]._id = ToString(all[n - k + i]._id)
                 /\ data[i].text = all[n - k + i].text
                 /\ data[i].player_name = all[n - k + i].player_name
           /\ \A i, j \in 1..k : i < j => all[n - k + i]._id < all[n - k + j]._id

\* a room with more than 50 messages, another room's message among them, has
\* been read
C14_BurstOverFifty ==
    /\ chat_resp.op = "get_chat"
    /\ Len(chat_resp.data) = 50
    /\ Len(Matching(chat_resp.room_code)) > 50
    /\ Len(messages) > Len(Matching(chat_resp.room_code))
    /\ messages[Len(messages)].room_code = chat_resp.room_code
    /\ messages[Len(messages) - 1].room_code # chat_resp.room_code

\* C15: in a playing room every write of current_turn by a roll passes the turn
\* from the stored player at index i of players who holds it to the player at
\* index (i + 1) mod n: the turn never moves backwards, skips a player or
\* repeats.
C15_TurnOnlyAdvances ==
    [][\A p \in Procs :
          (pc[p] = "roll_advance" /\ pc'[p] = "roll_read")
          => LET r == loc[p].room[1]._id
                 n == Len(rooms[r].players)
                 i == StoredIndex(r, rooms[r].current_turn)
             IN  i # 0
                 => rooms'[r].current_turn = rooms[r].players[(i % n) + 1]._id
      ]_vars

\* C16: a join writes its players list only to a room that is waiting, and the
\* stored players list of a playing room has the same length in the next state.
C16_NoJoinAfterStart ==
    [][/\ \A p \in Procs :
            (pc[p] = "join_write" /\ pc'[p] = "join_read")
            => rooms[loc[p].room[1]._id].status = "waiting"
       /\ \A r \in RoomIds :
            rooms[r].status = "playing"
            => Len(rooms'[r].players) = Len(rooms[r].players)
      ]_vars

\* C17: a roll that succeeds returns a value in 1..6 that is the last_roll of
\* the room it returns, whose current_turn is the player after the one who
\* rolled; and the stored last_roll of every room is unset or in 1..6.
C17_RollResponse ==
    /\ [](\A r \in RoomIds :
            rooms[r].last_roll = None \/ rooms[r].last_roll[1] \in 1..6)
    /\ [][\A p \in Procs :
            (pc[p] = "roll_read" /\ pc'[p] = "idle")
            => LET room == resp'.room[1]
                   n == Len(room.players)
                   i == CHOOSE k \in 1..n : room.players[k]._id = Some(req[p].player_id)
               IN  /\ resp'.status = 200
                   /\ resp'.roll # None
                   /\ resp'.roll[1] \in 1..6
                   /\ room.last_roll = resp'.roll
                   /\ \E k \in 1..n : room.players[k]._id = Some(req[p].player_id)
                   /\ room.current_turn = room.players[(i % n) + 1]._id
      ]_vars

\* C18: at most one roll is accepted and written to last_roll per turn, also
\* when requests overlap: two workers never both stand between their write of
\* last_roll and their write of current_turn on the same room, since then two
\* rolls have been stored and the turn has not changed in between.
C18_OneRollPerTurn ==
    \A p, q \in Procs :
        (p # q /\ pc[p] = "roll_advance" /\ pc[q] = "roll_advance")
        => loc[p].room[1]._id # loc[q].room[1]._id

\* C19: in every state every room has current_turn unset exactly when its
\* status is waiting, and a waiting room has last_roll unset.
C19_TurnSetIffStarted ==
    \A r \in RoomIds :
        /\ (rooms[r].current_turn = None) <=> (rooms[r].status = "waiting")
        /\ rooms[r].status = "waiting" => rooms[r].last_roll = None

\* C20: a started game is never stuck: every playing room has a player in its
\* players list whose roll request passes the turn check.
C20_SomeRollAccepted ==
    \A r \in RoomIds :
        rooms[r].status = "playing"
        => \E i \in 1..Len(rooms[r].players) :
             /\ rooms[r].players[i]._id # None
             /\ ~NotYourTurn(rooms[r], rooms[r].players[i]._id[1])

====
